---------------------------- MODULE Spec2Model ----------------------------
(***************************************************************************)
(* A model of hover_project.py: the Wikipedia indexer (create_index,       *)
(* parse_hotpot_wiki, index_wikipedia) and the BM25 retriever (retrieve,   *)
(* batch_retrieve, evaluate_retrieval).                                    *)
(*                                                                         *)
(* Python strings whose characters matter (sentences, the stored blobs)    *)
(* are sequences of one-character strings; identifiers and titles are      *)
(* atomic strings.  A Python dict with optional keys is a record with a    *)
(* has<Key> flag beside each optional field.                               *)
(*                                                                         *)
(* The module holds one specification per component:                       *)
(*   SpecNorm   generate_docs on one raw document, then retrieve's split   *)
(*   SpecParse  parse_hotpot_wiki over a directory or a single file         *)
(*   SpecIndex  create_index and index_wikipedia against the engine         *)
(*   SpecBatch  batch_retrieve over a dataset                               *)
(*   SpecEval   evaluate_retrieval over a result mapping                    *)
(***************************************************************************)
EXTENDS Integers, Sequences, FiniteSets, TLC

VARIABLES
    \* ---- generate_docs / retrieve on one document (SpecNorm)
    raw,            \* the raw document read from the corpus
    npc,            \* "raw" | "indexed" | "retrieved" | "KeyError"
    sentences,      \* generate_docs' local list `sentences`
    action,         \* the bulk action generate_docs yields (_id, _source)
    hitSentences,   \* retrieve's result field 'sentences' for this document
    \* ---- evaluate_retrieval (SpecEval)
    evalResults,    \* the argument `results`, its entries in dict order
    epc,            \* "call" | "returned" | "ZeroDivisionError"
    recalls,        \* the value of `recall` in each turn of the loop
    metrics,        \* the dict evaluate_retrieval returns
    \* ---- batch_retrieve (SpecBatch)
    dataset,        \* the argument `dataset`, a list of examples
    k,              \* the argument `k`
    output_file,    \* the argument `output_file`: "None", "" or a path
    bi,             \* how many examples the loop has taken
    results,        \* the local dict `results`
    bpc,            \* "loop" | "saved" | "returned" | "raised"
    sink,           \* the file at output_file
    sinkWrites,     \* how many times that file was opened for writing
    returned,       \* the value batch_retrieve returned
    \* ---- parse_hotpot_wiki (SpecParse)
    fsys,           \* the files at or under wiki_dir_path: path -> file
    isfile,         \* os.path.isfile(wiki_dir_path)
    files_to_process, \* the local list of that name
    ppc,            \* "start" | "open" | "read" | "done"
    fidx,           \* the place in files_to_process of the current file
    lineNo,         \* the next line of the current file
    yielded,        \* the documents the generator has yielded so far
    diagnostics,    \* how many "Error reading" lines were printed
    \* ---- create_index and index_wikipedia against the engine (SpecIndex)
    indexExists,    \* engine: the index hotpot_wiki exists
    createRequests, \* engine: how many indices.create requests it received
    stored,         \* engine: the _ids written to the index
    searchable,     \* engine: the _ids a query issued now would see
    corpus,         \* the documents parse_hotpot_wiki yields, in order
    batch_size,     \* the argument `batch_size`
    ipc,            \* "create" | "indexing" | "returned" | "raised"
    exc,            \* the exception that ended the run, or "none"
    runs,           \* how many times the indexing script was started
    consumed,       \* how many documents were taken from generate_docs
    pending,        \* the engine's verdicts of the chunk not yet looked at
    chunkErrors,    \* the failed items the bulk helper holds for the chunk
    success_count,  \* the local of that name
    failuresReported, \* how many times line 181 printed a failure
    refreshes       \* how many indices.refresh requests this call issued

normVars == <<raw, npc, sentences, action, hitSentences>>
evalVars == <<evalResults, epc, recalls, metrics>>
batchVars == <<dataset, k, output_file, bi, results, bpc, sink, sinkWrites, returned>>

parseVars == <<fsys, isfile, files_to_process, ppc, fidx, lineNo, yielded, diagnostics>>

indexVars ==
    <<indexExists, createRequests, stored, searchable, corpus, batch_size, ipc, exc,
      runs, consumed, pending, chunkErrors, success_count, failuresReported, refreshes>>

vars == <<normVars, evalVars, batchVars, parseVars, indexVars>>

(***************************************************************************)
(* Bounds.                                                                 *)
(***************************************************************************)
\* the longest `text` list of a raw document
MaxItems == 3
\* the most entries of a result mapping handed to evaluate_retrieval
MaxEntries == 2
\* the longest dataset handed to batch_retrieve
MaxClaims == 3
\* the most files under wiki_dir_path
MaxShards == 3
\* the longest corpus handed to index_wikipedia
MaxDocs == 3
\* the largest batch_size
MaxBatch == 2
\* how many times the indexing script is started
MaxRuns == 2

(***************************************************************************)
(* Strings.                                                                *)
(***************************************************************************)
NL == "\n"
SP == " "

\* str.join: the members of ss with sep between neighbours
RECURSIVE Join(_, _)
Join(sep, ss) ==
    IF ss = <<>> THEN <<>>
    ELSE IF Len(ss) = 1 THEN ss[1]
    ELSE ss[1] \o sep \o Join(sep, Tail(ss))

\* str.split(c) for a one-character separator: n separators give n+1 pieces,
\* empty pieces kept, so the empty string gives one empty piece
RECURSIVE SplitFrom(_, _, _)
SplitFrom(s, c, cur) ==
    IF s = <<>> THEN <<cur>>
    ELSE IF Head(s) = c THEN <<cur>> \o SplitFrom(Tail(s), c, <<>>)
    ELSE SplitFrom(Tail(s), c, Append(cur, Head(s)))

Split(s, c) == SplitFrom(s, c, <<>>)

(***************************************************************************)
(* Raw documents.  An element of `text` is a string, a list or something   *)
(* else (JSON number, object, null); a member of a nested list is a        *)
(* string or something else (a number, a deeper list).                     *)
(***************************************************************************)
StrM(s) == [kind |-> "str", s |-> s]
NumM == [kind |-> "num", s |-> <<>>]
ListM == [kind |-> "list", s |-> <<>>]

StrI(s) == [kind |-> "str", s |-> s, m |-> <<>>]
ListI(m) == [kind |-> "list", s |-> <<>>, m |-> m]
OtherI == [kind |-> "other", s |-> <<>>, m |-> <<>>]

StringItems ==
    { StrI(<<"a">>), StrI(<<>>), StrI(<<"b">>), StrI(<<"a", NL, "b">>) }

TextItems ==
    StringItems \cup
    { ListI(<<>>),
      ListI(<<StrM(<<"a">>), NumM, StrM(<<"b">>)>>),
      ListI(<<ListM, StrM(<<"c">>)>>),
      OtherI }

Texts == UNION { [1..n -> TextItems] : n \in 0..MaxItems }

\* the ids and titles of the corpus; "" is the empty string
Ids == {"", "Q1", "Paris"}
Titles == {"Paris"}

RawDocs ==
    [hasId : BOOLEAN, id : Ids, hasTitle : BOOLEAN, title : Titles,
     hasText : BOOLEAN, text : Texts, hasUrl : BOOLEAN, url : {"u"}]

\* a dict holds no value under an absent key: one representative per dict
WellFormedDoc(d) ==
    /\ ~d.hasId => d.id = "Q1"
    /\ ~d.hasText => d.text = <<>>

(***************************************************************************)
(* generate_docs: the body of the loop, for one document.                  *)
(***************************************************************************)
\* [s for s in item if isinstance(s, str)]
RECURSIVE StrMembers(_)
StrMembers(m) ==
    IF m = <<>> THEN <<>>
    ELSE IF Head(m).kind = "str" THEN <<Head(m).s>> \o StrMembers(Tail(m))
    ELSE StrMembers(Tail(m))

\* a buggy variant: sentences.extend(item), non-string members kept
RECURSIVE AllMembers(_)
AllMembers(m) ==
    IF m = <<>> THEN <<>> ELSE <<Head(m).s>> \o AllMembers(Tail(m))

\* what one element of text_data adds to `sentences`
ItemSentences(item) ==
    IF item.kind = "list" THEN StrMembers(item.m)
    ELSE IF item.kind = "str" THEN <<item.s>>
    ELSE <<>>

\* the loop over text_data, `acc` being `sentences` so far
RECURSIVE FlattenLoop(_, _)
FlattenLoop(text_data, acc) ==
    IF text_data = <<>> THEN acc
    ELSE FlattenLoop(Tail(text_data), acc \o ItemSentences(Head(text_data)))

\* doc.get('text', [])
TextData(doc) == IF doc.hasText THEN doc.text ELSE <<>>

\* a buggy variant of the loop: nested lists extended unfiltered
RECURSIVE FlattenLoopUnfiltered(_, _)
FlattenLoopUnfiltered(text_data, acc) ==
    IF text_data = <<>> THEN acc
    ELSE FlattenLoopUnfiltered(Tail(text_data),
            acc \o (IF Head(text_data).kind = "list"
                    THEN AllMembers(Head(text_data).m)
                    ELSE ItemSentences(Head(text_data))))

FlattenUnfiltered(doc) == FlattenLoopUnfiltered(TextData(doc), <<>>)

\* lines 141-149: `sentences` once the loop over text_data has ended
Flatten(doc) == FlattenLoop(TextData(doc), <<>>)

\* ' '.join(sentences)
FullText(ss) == Join(<<SP>>, ss)

\* a buggy variant: the sentences blob joined like full_text
SentencesTextSpace(ss) == Join(<<SP>>, ss)

\* '\n'.join(sentences)
SentencesText(ss) == Join(<<NL>>, ss)

\* doc.get('id', doc['title']): the value under 'id' when the key is there
DocId(doc) == IF doc.hasId THEN doc.id ELSE doc.title

\* the dict generate_docs yields
BulkAction(doc, ss) ==
    [id |-> DocId(doc),
     title |-> doc.title,
     text |-> FullText(ss),
     sentences |-> SentencesText(ss),
     url |-> IF doc.hasUrl THEN doc.url ELSE ""]

NoAction == [id |-> "", title |-> "", text |-> <<>>, sentences |-> <<>>, url |-> ""]

\* source['sentences'].split('\n')
HitSentences(source) == Split(source.sentences, NL)

NoDoc ==
    [hasId |-> FALSE, id |-> "Q1", hasTitle |-> FALSE, title |-> "Paris",
     hasText |-> FALSE, text |-> <<>>, hasUrl |-> FALSE, url |-> "u"]

\* the component is not part of the run
IdleNorm ==
    /\ raw = NoDoc
    /\ npc = "off"
    /\ sentences = <<>>
    /\ action = NoAction
    /\ hitSentences = <<>>

\* generate_docs reaches its yield for this document
GenerateDoc ==
    /\ npc = "raw"
    /\ raw.hasTitle
    /\ sentences' = Flatten(raw)
    /\ action' = BulkAction(raw, Flatten(raw))
    /\ npc' = "indexed"
    /\ UNCHANGED <<raw, hitSentences, evalVars, batchVars, parseVars, indexVars>>

\* doc['title'] on a document without a title (line 157 evaluates it even
\* when 'id' is there): KeyError leaves the generator
GenerateDocKeyError ==
    /\ npc = "raw"
    /\ ~raw.hasTitle
    /\ sentences' = Flatten(raw)
    /\ npc' = "KeyError"
    /\ UNCHANGED <<raw, action, hitSentences, evalVars, batchVars, parseVars, indexVars>>

\* retrieve shapes the hit of the stored document
RetrieveHit ==
    /\ npc = "indexed"
    /\ hitSentences' = HitSentences(action)
    /\ npc' = "retrieved"
    /\ UNCHANGED <<raw, sentences, action, evalVars, batchVars, parseVars, indexVars>>

(***************************************************************************)
(* evaluate_retrieval.  Python's floats are modelled as exact fractions    *)
(* [n, d] in lowest terms; rounding is not modelled.                       *)
(***************************************************************************)
RECURSIVE GCD(_, _)
GCD(a, b) == IF b = 0 THEN a ELSE GCD(b, a % b)

Rat(n, d) == LET g == GCD(n, d) IN [n |-> n \div g, d |-> d \div g]

RatAdd(a, b) == Rat(a.n * b.d + b.n * a.d, a.d * b.d)

\* a / c for an integer c > 0
RatDivInt(a, c) == Rat(a.n, a.d * c)

\* the supporting_facts and retrieved_docs of the results evaluated: a fact is
\* a (title, sentence index) pair, a retrieved document is named by its title
FactLists ==
    { <<>>,
      << <<"A", 0>> >>,
      << <<"A", 0>>, <<"A", 1>> >>,
      << <<"A", 0>>, <<"B", 2>> >>,
      << <<"A", 0>>, <<"B", 0>>, <<"C", 1>> >> }

RetrievedLists ==
    { <<>>, <<"A">>, <<"A", "A">>, <<"A", "C">>, <<"B", "A">>, <<"C", "B", "A">> }

Entries == [supporting_facts : FactLists, retrieved_docs : RetrievedLists]

ResultMaps == UNION { [1..n -> Entries] : n \in 0..MaxEntries }

\* {doc['title'] for doc in data['retrieved_docs']}
RetrievedTitles(data) ==
    { data.retrieved_docs[i] : i \in DOMAIN data.retrieved_docs }

\* {fact[0] for fact in supporting_facts}
RequiredTitles(data) ==
    { data.supporting_facts[i][1] : i \in DOMAIN data.supporting_facts }

\* a buggy variant: the found titles over the number of supporting facts
RecallPerFact(data) ==
    IF data.supporting_facts # <<>>
    THEN Rat(Cardinality(RequiredTitles(data) \cap RetrievedTitles(data)),
             Len(data.supporting_facts))
    ELSE Rat(0, 1)

\* lines 289-290: len(found_titles) / len(required_titles) if required_titles else 0
Recall(data) ==
    LET found_titles == RequiredTitles(data) \cap RetrievedTitles(data) IN
    IF RequiredTitles(data) # {}
    THEN Rat(Cardinality(found_titles), Cardinality(RequiredTitles(data)))
    ELSE Rat(0, 1)

\* a buggy variant: the sum of the recalls returned undivided
AvgRecallUndivided(total_recall, total_claims) == total_recall

\* line 300: total_recall / total_claims
AvgRecall(total_recall, total_claims) == RatDivInt(total_recall, total_claims)

\* line 299: claims_with_all_docs / total_claims
Coverage(claims_with_all_docs, total_claims) == Rat(claims_with_all_docs, total_claims)

\* the loop of lines 281-294 from entry i on; st holds claims_with_all_docs,
\* total_recall and the recalls seen
RECURSIVE EvalLoop(_, _, _)
EvalLoop(res, i, st) ==
    IF i > Len(res) THEN st
    ELSE LET recall == Recall(res[i]) IN
         EvalLoop(res, i + 1,
            [claims_with_all_docs |->
                IF recall = Rat(1, 1) THEN st.claims_with_all_docs + 1
                ELSE st.claims_with_all_docs,
             total_recall |-> RatAdd(st.total_recall, recall),
             recalls |-> Append(st.recalls, recall)])

EvalDone(res) ==
    EvalLoop(res, 1,
        [claims_with_all_docs |-> 0, total_recall |-> Rat(0, 1), recalls |-> <<>>])

NoMetrics ==
    [total_claims |-> 0, claims_with_all_docs |-> 0,
     coverage |-> Rat(0, 1), avg_recall |-> Rat(0, 1)]

IdleEval ==
    /\ evalResults = <<>>
    /\ epc = "off"
    /\ recalls = <<>>
    /\ metrics = NoMetrics

\* evaluate_retrieval over a mapping with entries
Evaluate ==
    /\ epc = "call"
    /\ Len(evalResults) # 0
    /\ LET st == EvalDone(evalResults)
           total_claims == Len(evalResults) IN
        /\ recalls' = st.recalls
        /\ metrics' =
            [total_claims |-> total_claims,
             claims_with_all_docs |-> st.claims_with_all_docs,
             coverage |-> Coverage(st.claims_with_all_docs, total_claims),
             avg_recall |-> AvgRecall(st.total_recall, total_claims)]
    /\ epc' = "returned"
    /\ UNCHANGED <<evalResults, normVars, batchVars, parseVars, indexVars>>

\* evaluate_retrieval over an empty mapping: the loop does nothing and line
\* 299 divides 0 by 0
EvaluateEmpty ==
    /\ epc = "call"
    /\ Len(evalResults) = 0
    /\ epc' = "ZeroDivisionError"
    /\ UNCHANGED <<evalResults, recalls, metrics, normVars, batchVars, parseVars, indexVars>>

(***************************************************************************)
(* retrieve and batch_retrieve.  The search engine is a ranking oracle     *)
(* over a static index: Ranked(claim) is the hits it holds for a claim, in *)
(* rank order, of which a search returns the first `size`.                 *)
(***************************************************************************)
\* the _id, _source and _score of the documents of the index
HitParis ==
    [id |-> "Q1", score |-> 9,
     source |-> [title |-> "Paris", sentences |-> <<"a", NL, "b">>, hasUrl |-> TRUE, url |-> "u"]]
HitLyon ==
    [id |-> "Lyon", score |-> 4,
     source |-> [title |-> "Lyon", sentences |-> <<>>, hasUrl |-> FALSE, url |-> "u"]]

Ranked(claim) ==
    CASE claim = "capital" -> <<HitParis, HitLyon>>
      [] claim = "city" -> <<HitLyon>>
      [] OTHER -> <<>>

\* response['hits']['hits'] for a query of size `size`
SearchHits(claim, size) ==
    LET hits == Ranked(claim) IN
    IF Len(hits) <= size THEN hits ELSE SubSeq(hits, 1, size)

\* lines 220-230: one result dict per hit, in the order of the hits
Retrieve(claim, size) ==
    LET hits == SearchHits(claim, size) IN
    [i \in DOMAIN hits |->
        [doc_id |-> hits[i].id,
         title |-> hits[i].source.title,
         sentences |-> HitSentences(hits[i].source),
         score |-> hits[i].score,
         url |-> IF hits[i].source.hasUrl THEN hits[i].source.url ELSE ""]]

\* the examples of a dataset: the test split carries no label and no facts
Examples ==
    { [uid |-> "u1", claim |-> "capital", hasLabel |-> TRUE, label |-> "SUPPORTED",
       hasFacts |-> TRUE, supporting_facts |-> << <<"Paris", 0>> >>],
      [uid |-> "u2", claim |-> "city", hasLabel |-> TRUE, label |-> "NOT_SUPPORTED",
       hasFacts |-> TRUE, supporting_facts |-> << <<"Lyon", 0>>, <<"Paris", 0>> >>],
      [uid |-> "u1", claim |-> "city", hasLabel |-> FALSE, label |-> "None",
       hasFacts |-> FALSE, supporting_facts |-> <<>>],
      [uid |-> "u3", claim |-> "moon", hasLabel |-> FALSE, label |-> "None",
       hasFacts |-> FALSE, supporting_facts |-> <<>>] }

Datasets == UNION { [1..n -> Examples] : n \in 0..MaxClaims }

\* the values of k and of output_file tried
Ks == {1, 2}
OutputFiles == {"None", "", "out.json"}

\* `if output_file:` takes neither None nor the empty string
Truthy(f) == f # "None" /\ f # ""

\* lines 252-257: the value stored under the example's uid
ResultEntry(example, size) ==
    [claim |-> example.claim,
     retrieved_docs |-> Retrieve(example.claim, size),
     label |-> IF example.hasLabel THEN example.label ELSE "None",
     supporting_facts |-> IF example.hasFacts THEN example.supporting_facts ELSE <<>>]

\* results[uid] = entry
DictSet(d, key, value) ==
    [u \in DOMAIN d \cup {key} |-> IF u = key THEN value ELSE d[u]]

EmptyDict == [u \in {} |-> 0]

NoFile == [state |-> "absent", data |-> EmptyDict]
StaleFile == [state |-> "stale", data |-> EmptyDict]

IdleBatch ==
    /\ dataset = <<>>
    /\ k = 1
    /\ output_file = "None"
    /\ bi = 0
    /\ results = EmptyDict
    /\ bpc = "off"
    /\ sink = NoFile
    /\ sinkWrites = 0
    /\ returned = EmptyDict

\* a buggy variant: the results saved after every claim
RetrieveOkSaving ==
    /\ bpc = "loop"
    /\ bi < Len(dataset)
    /\ LET example == dataset[bi + 1] IN
        /\ results' = DictSet(results, example.uid, ResultEntry(example, k))
        /\ IF Truthy(output_file)
           THEN /\ sink' = [state |-> "written",
                            data |-> DictSet(results, example.uid, ResultEntry(example, k))]
                /\ sinkWrites' = sinkWrites + 1
           ELSE UNCHANGED <<sink, sinkWrites>>
    /\ bi' = bi + 1
    /\ UNCHANGED <<dataset, k, output_file, bpc, returned, normVars, evalVars, parseVars, indexVars>>

\* one turn of the loop of lines 247-257, retrieve returning
RetrieveOk ==
    /\ bpc = "loop"
    /\ bi < Len(dataset)
    /\ LET example == dataset[bi + 1] IN
        results' = DictSet(results, example.uid, ResultEntry(example, k))
    /\ bi' = bi + 1
    /\ UNCHANGED <<dataset, k, output_file, bpc, sink, sinkWrites, returned,
                   normVars, evalVars, parseVars, indexVars>>

\* one turn of the loop, es.search raising (line 217): nothing catches it in
\* retrieve or in batch_retrieve
RetrieveRaises ==
    /\ bpc = "loop"
    /\ bi < Len(dataset)
    /\ bpc' = "raised"
    /\ UNCHANGED <<dataset, k, output_file, bi, results, sink, sinkWrites, returned,
                   normVars, evalVars, parseVars, indexVars>>

\* lines 259-262: the file opened for writing and the whole dict dumped
SaveResults ==
    /\ bpc = "loop"
    /\ bi = Len(dataset)
    /\ Truthy(output_file)
    /\ sink' = [state |-> "written", data |-> results]
    /\ sinkWrites' = sinkWrites + 1
    /\ bpc' = "saved"
    /\ UNCHANGED <<dataset, k, output_file, bi, results, returned, normVars, evalVars, parseVars, indexVars>>

\* line 264
ReturnResults ==
    /\ \/ bpc = "saved"
       \/ bpc = "loop" /\ bi = Len(dataset) /\ ~Truthy(output_file)
    /\ returned' = results
    /\ bpc' = "returned"
    /\ UNCHANGED <<dataset, k, output_file, bi, results, sink, sinkWrites,
                   normVars, evalVars, parseVars, indexVars>>

(***************************************************************************)
(* parse_hotpot_wiki.  A path is a sequence of symbols, compared as Python *)
(* compares strings: symbol by symbol, a proper prefix first.  Its last    *)
(* symbol is its suffix: BZ2 for ".bz2", TXT for any other.                *)
(***************************************************************************)
BZ2 == 0
TXT == 9

Paths == { <<1, BZ2>>, <<1, 2, BZ2>>, <<1, 1, BZ2>>, <<2, BZ2>>, <<2, TXT>> }

\* a line of a shard: blank after strip(), not JSON, or a JSON document
BlankLine == [kind |-> "blank", doc |-> "-"]
BadLine == [kind |-> "bad", doc |-> "-"]
DocLine(d) == [kind |-> "doc", doc |-> d]

\* a file: whether bz2.open succeeds, the lines reading gives, and whether
\* reading fails after them (a corrupt tail)
Files ==
    { [openable |-> TRUE, readErr |-> FALSE,
       lines |-> <<DocLine("d1"), BadLine, BlankLine, DocLine("d2")>>],
      [openable |-> FALSE, readErr |-> FALSE, lines |-> <<DocLine("d3")>>],
      [openable |-> TRUE, readErr |-> TRUE, lines |-> <<BadLine, DocLine("d4")>>],
      [openable |-> TRUE, readErr |-> FALSE, lines |-> <<DocLine("d5")>>] }

FileSystems ==
    UNION { [S -> Files] : S \in { T \in SUBSET Paths : Cardinality(T) <= MaxShards } }

\* str < str
RECURSIVE LexLess(_, _)
LexLess(a, b) ==
    IF a = <<>> THEN b # <<>>
    ELSE IF b = <<>> THEN FALSE
    ELSE IF Head(a) < Head(b) THEN TRUE
    ELSE IF Head(a) > Head(b) THEN FALSE
    ELSE LexLess(Tail(a), Tail(b))

\* file.endswith('.bz2')
EndsWithBz2(path) == path[Len(path)] = BZ2

\* the orders in which os.walk may hand out the files of S
WalkOrders(S) ==
    { f \in [1..Cardinality(S) -> S] : \A i, j \in DOMAIN f : i # j => f[i] # f[j] }

RECURSIVE InsertSorted(_, _)
InsertSorted(x, sorted) ==
    IF sorted = <<>> THEN <<x>>
    ELSE IF LexLess(x, Head(sorted)) THEN <<x>> \o sorted
    ELSE <<Head(sorted)>> \o InsertSorted(x, Tail(sorted))

RECURSIVE SortedFrom(_, _)
SortedFrom(list, sorted) ==
    IF list = <<>> THEN sorted
    ELSE SortedFrom(Tail(list), InsertSorted(Head(list), sorted))

\* a buggy variant: the list left in os.walk's order
Unsorted(list) == list

\* files_to_process.sort()
Sort(list) == SortedFrom(list, <<>>)

IdleParse ==
    /\ fsys = [q \in {} |-> 0]
    /\ isfile = FALSE
    /\ files_to_process = <<>>
    /\ ppc = "off"
    /\ fidx = 0
    /\ lineNo = 0
    /\ yielded = <<>>
    /\ diagnostics = 0

CurrentFile == fsys[files_to_process[fidx]]

\* lines 96-108: the list of files to process
ListFiles ==
    /\ ppc = "start"
    /\ \/ /\ isfile
          /\ \E path \in DOMAIN fsys : files_to_process' = <<path>>
       \/ /\ ~isfile
          /\ \E found \in WalkOrders({ q \in DOMAIN fsys : EndsWithBz2(q) }) :
                files_to_process' = Sort(found)
    /\ fidx' = 1
    /\ ppc' = "open"
    /\ UNCHANGED <<fsys, isfile, lineNo, yielded, diagnostics,
                   normVars, evalVars, batchVars, indexVars>>

\* line 113: bz2.open succeeds
OpenShard ==
    /\ ppc = "open"
    /\ fidx <= Len(files_to_process)
    /\ CurrentFile.openable
    /\ lineNo' = 1
    /\ ppc' = "read"
    /\ UNCHANGED <<fsys, isfile, files_to_process, fidx, yielded, diagnostics,
                   normVars, evalVars, batchVars, indexVars>>

\* line 113 raises; lines 125-127 print and go on to the next file
OpenShardFails ==
    /\ ppc = "open"
    /\ fidx <= Len(files_to_process)
    /\ ~CurrentFile.openable
    /\ diagnostics' = diagnostics + 1
    /\ fidx' = fidx + 1
    /\ UNCHANGED <<fsys, isfile, files_to_process, ppc, lineNo, yielded,
                   normVars, evalVars, batchVars, indexVars>>

\* lines 114-124, one line: a blank line and a line json.loads rejects are
\* passed over, a document is yielded
ReadLine ==
    /\ ppc = "read"
    /\ lineNo <= Len(CurrentFile.lines)
    /\ LET line == CurrentFile.lines[lineNo] IN
        \/ /\ line.kind = "blank"
           /\ UNCHANGED yielded
        \/ /\ line.kind = "bad"
           /\ UNCHANGED yielded
        \/ /\ line.kind = "doc"
           /\ yielded' = Append(yielded, line.doc)
    /\ lineNo' = lineNo + 1
    /\ UNCHANGED <<fsys, isfile, files_to_process, ppc, fidx, diagnostics,
                   normVars, evalVars, batchVars, indexVars>>

\* the lines are exhausted: the file ends, or reading on raises and lines
\* 125-127 print and go on to the next file
EndOfShard ==
    /\ ppc = "read"
    /\ lineNo > Len(CurrentFile.lines)
    /\ \/ /\ ~CurrentFile.readErr
          /\ UNCHANGED diagnostics
       \/ /\ CurrentFile.readErr
          /\ diagnostics' = diagnostics + 1
    /\ fidx' = fidx + 1
    /\ ppc' = "open"
    /\ UNCHANGED <<fsys, isfile, files_to_process, lineNo, yielded,
                   normVars, evalVars, batchVars, indexVars>>

\* the loop of line 111 ends and the generator returns
EndOfScan ==
    /\ ppc = "open"
    /\ fidx > Len(files_to_process)
    /\ ppc' = "done"
    /\ UNCHANGED <<fsys, isfile, files_to_process, fidx, lineNo, yielded, diagnostics,
                   normVars, evalVars, batchVars, indexVars>>

(***************************************************************************)
(* create_index and index_wikipedia, as run_indexing.py calls them, and    *)
(* the engine they talk to.  A document of the corpus carries whether it   *)
(* has a title and the engine's final verdict on its write (`ok`: FALSE    *)
(* is a permanent failure, reported once the engine's retries are spent).  *)
(*                                                                         *)
(* helpers.streaming_bulk is called without raise_on_error, whose default  *)
(* is True: the helper yields the successful items of a chunk, holds back  *)
(* the failed ones, and raises BulkIndexError once the chunk's response is *)
(* read.  The else branch of lines 180-181 is therefore never entered.     *)
(***************************************************************************)
\* the default of streaming_bulk's raise_on_error, which line 169 keeps
RaiseOnError == TRUE

CorpusDocs ==
    { [id |-> "Q1", hasTitle |-> TRUE, ok |-> TRUE],
      [id |-> "Q2", hasTitle |-> TRUE, ok |-> TRUE],
      [id |-> "Q3", hasTitle |-> TRUE, ok |-> FALSE],
      [id |-> "Q4", hasTitle |-> FALSE, ok |-> TRUE] }

Corpora == UNION { [1..n -> CorpusDocs] : n \in 0..MaxDocs }

IdleIndex ==
    /\ indexExists = FALSE
    /\ createRequests = 0
    /\ stored = {}
    /\ searchable = {}
    /\ corpus = <<>>
    /\ batch_size = 1
    /\ ipc = "off"
    /\ exc = "none"
    /\ runs = 0
    /\ consumed = 0
    /\ pending = <<>>
    /\ chunkErrors = 0
    /\ success_count = 0
    /\ failuresReported = 0
    /\ refreshes = 0

\* lines 65-71: the exists test only prints; indices.create is sent either
\* way, and the engine answers a create of an existing index with an error
\* (resource_already_exists_exception), which nothing catches
CreateIndex ==
    /\ ipc = "create"
    /\ createRequests' = createRequests + 1
    /\ IF indexExists
       THEN exc' = "RequestError" /\ ipc' = "raised" /\ UNCHANGED indexExists
       ELSE indexExists' = TRUE /\ ipc' = "indexing" /\ UNCHANGED exc
    /\ UNCHANGED <<stored, searchable, corpus, batch_size, runs, consumed, pending,
                   chunkErrors, success_count, failuresReported, refreshes,
                   normVars, evalVars, batchVars, parseVars>>

\* the documents of the next chunk: up to chunk_size of those not yet taken
NextChunk ==
    SubSeq(corpus, consumed + 1,
           IF consumed + batch_size <= Len(corpus) THEN consumed + batch_size
           ELSE Len(corpus))

BetweenChunks == ipc = "indexing" /\ pending = <<>> /\ chunkErrors = 0

\* the helper fills a chunk from generate_docs and sends it; the engine
\* writes the documents it accepts and answers with one verdict per item
SendChunk ==
    /\ BetweenChunks
    /\ consumed < Len(corpus)
    /\ \A i \in DOMAIN NextChunk : NextChunk[i].hasTitle
    /\ stored' = stored \cup { NextChunk[i].id : i \in { j \in DOMAIN NextChunk : NextChunk[j].ok } }
    /\ pending' = NextChunk
    /\ consumed' = consumed + Len(NextChunk)
    /\ UNCHANGED <<indexExists, createRequests, searchable, corpus, batch_size, ipc, exc,
                   runs, chunkErrors, success_count, failuresReported, refreshes,
                   normVars, evalVars, batchVars, parseVars>>

\* generate_docs meets a document without a title while the chunk is being
\* filled: doc['title'] raises KeyError and the chunk is never sent
ChunkKeyError ==
    /\ BetweenChunks
    /\ consumed < Len(corpus)
    /\ \E i \in DOMAIN NextChunk : ~NextChunk[i].hasTitle
    /\ exc' = "KeyError"
    /\ ipc' = "raised"
    /\ UNCHANGED <<indexExists, createRequests, stored, searchable, corpus, batch_size,
                   runs, consumed, pending, chunkErrors, success_count, failuresReported,
                   refreshes, normVars, evalVars, batchVars, parseVars>>

\* lines 176-179: the helper yields a successful item
YieldOk ==
    /\ ipc = "indexing"
    /\ pending # <<>>
    /\ Head(pending).ok
    /\ success_count' = success_count + 1
    /\ pending' = Tail(pending)
    /\ UNCHANGED <<indexExists, createRequests, stored, searchable, corpus, batch_size,
                   ipc, exc, runs, consumed, chunkErrors, failuresReported, refreshes,
                   normVars, evalVars, batchVars, parseVars>>

\* the helper holds back a failed item instead of yielding it
HoldBack ==
    /\ ipc = "indexing"
    /\ RaiseOnError
    /\ pending # <<>>
    /\ ~Head(pending).ok
    /\ chunkErrors' = chunkErrors + 1
    /\ pending' = Tail(pending)
    /\ UNCHANGED <<indexExists, createRequests, stored, searchable, corpus, batch_size,
                   ipc, exc, runs, consumed, success_count, failuresReported, refreshes,
                   normVars, evalVars, batchVars, parseVars>>

\* the chunk's response is read and held failed items: the helper raises
\* BulkIndexError, which leaves the loop of line 169 and index_wikipedia
BulkRaises ==
    /\ ipc = "indexing"
    /\ RaiseOnError
    /\ pending = <<>>
    /\ chunkErrors > 0
    /\ exc' = "BulkIndexError"
    /\ ipc' = "raised"
    /\ UNCHANGED <<indexExists, createRequests, stored, searchable, corpus, batch_size,
                   runs, consumed, pending, chunkErrors, success_count, failuresReported,
                   refreshes, normVars, evalVars, batchVars, parseVars>>

\* a buggy variant: the refresh issued between chunks
RefreshEarly ==
    /\ BetweenChunks
    /\ searchable' = stored
    /\ refreshes' = refreshes + 1
    /\ ipc' = "returned"
    /\ UNCHANGED <<indexExists, createRequests, stored, corpus, batch_size, exc, runs,
                   consumed, pending, chunkErrors, success_count, failuresReported,
                   normVars, evalVars, batchVars, parseVars>>

\* lines 183-184: the loop has ended; the refresh makes every write so far
\* searchable, and index_wikipedia returns
Refresh ==
    /\ BetweenChunks
    /\ consumed = Len(corpus)
    /\ searchable' = stored
    /\ refreshes' = refreshes + 1
    /\ ipc' = "returned"
    /\ UNCHANGED <<indexExists, createRequests, stored, corpus, batch_size, exc, runs,
                   consumed, pending, chunkErrors, success_count, failuresReported,
                   normVars, evalVars, batchVars, parseVars>>

\* the indexing script is started again over the same corpus
Restart ==
    /\ ipc \in {"returned", "raised"}
    /\ runs < MaxRuns
    /\ runs' = runs + 1
    /\ ipc' = "create"
    /\ exc' = "none"
    /\ consumed' = 0
    /\ pending' = <<>>
    /\ chunkErrors' = 0
    /\ success_count' = 0
    /\ refreshes' = 0
    /\ UNCHANGED <<indexExists, createRequests, stored, searchable, corpus, batch_size,
                   failuresReported, normVars, evalVars, batchVars, parseVars>>

(***************************************************************************)
(* The specifications: each runs one component and leaves the others off.  *)
(***************************************************************************)
InitNorm ==
    /\ raw \in { d \in RawDocs : WellFormedDoc(d) }
    /\ npc = "raw"
    /\ sentences = <<>>
    /\ action = NoAction
    /\ hitSentences = <<>>
    /\ IdleEval
    /\ IdleBatch
    /\ IdleParse
    /\ IdleIndex

NextNorm == GenerateDoc \/ GenerateDocKeyError \/ RetrieveHit

SpecNorm == InitNorm /\ [][NextNorm]_vars

InitEval ==
    /\ evalResults \in ResultMaps
    /\ epc = "call"
    /\ recalls = <<>>
    /\ metrics = NoMetrics
    /\ IdleNorm
    /\ IdleBatch
    /\ IdleParse
    /\ IdleIndex

NextEval == Evaluate \/ EvaluateEmpty

SpecEval == InitEval /\ [][NextEval]_vars

InitBatch ==
    /\ dataset \in Datasets
    /\ k \in Ks
    /\ output_file \in OutputFiles
    /\ bi = 0
    /\ results = EmptyDict
    /\ bpc = "loop"
    /\ sink \in {NoFile, StaleFile}
    /\ sinkWrites = 0
    /\ returned = EmptyDict
    /\ IdleNorm
    /\ IdleEval
    /\ IdleParse
    /\ IdleIndex

NextBatch == RetrieveOk \/ RetrieveRaises \/ SaveResults \/ ReturnResults

SpecBatch == InitBatch /\ [][NextBatch]_vars

InitParse ==
    /\ fsys \in FileSystems
    /\ isfile \in BOOLEAN
    /\ isfile => Cardinality(DOMAIN fsys) = 1
    /\ files_to_process = <<>>
    /\ ppc = "start"
    /\ fidx = 0
    /\ lineNo = 0
    /\ yielded = <<>>
    /\ diagnostics = 0
    /\ IdleNorm
    /\ IdleEval
    /\ IdleBatch
    /\ IdleIndex

NextParse ==
    ListFiles \/ OpenShard \/ OpenShardFails \/ ReadLine \/ EndOfShard \/ EndOfScan

SpecParse == InitParse /\ [][NextParse]_vars

InitIndex ==
    /\ indexExists = FALSE
    /\ createRequests = 0
    /\ stored = {}
    /\ searchable = {}
    /\ corpus \in Corpora
    /\ batch_size \in 1..MaxBatch
    /\ ipc = "create"
    /\ exc = "none"
    /\ runs = 1
    /\ consumed = 0
    /\ pending = <<>>
    /\ chunkErrors = 0
    /\ success_count = 0
    /\ failuresReported = 0
    /\ refreshes = 0
    /\ IdleNorm
    /\ IdleEval
    /\ IdleBatch
    /\ IdleParse

NextIndex ==
    \/ CreateIndex
    \/ SendChunk
    \/ ChunkKeyError
    \/ YieldOk
    \/ HoldBack
    \/ BulkRaises
    \/ Refresh
    \/ Restart

SpecIndex == InitIndex /\ [][NextIndex]_vars

(***************************************************************************)
(* Claims about generate_docs and retrieve's split (SpecNorm).             *)
(***************************************************************************)
\* `text` is there and every element of it is a string
FlatStrings(doc) ==
    doc.hasText /\ \A i \in DOMAIN doc.text : doc.text[i].kind = "str"

\* `text` is there and every element of it is a string or a list
StringsAndLists(doc) ==
    doc.hasText /\ \A i \in DOMAIN doc.text : doc.text[i].kind \in {"str", "list"}

\* the strings of a flat `text`, as Python compares them
TextStrings(doc) == [i \in DOMAIN doc.text |-> doc.text[i].s]

NewlineFree(doc) ==
    \A i \in DOMAIN doc.text : \A c \in DOMAIN doc.text[i].s : doc.text[i].s[c] # NL

\* C6: the identity of an indexed document is the raw id when id is present
\* and non-empty, and the raw title otherwise (id absent or empty).
C6_IdentityNonEmptyIdElseTitle ==
    npc = "indexed" =>
        action.id = (IF raw.hasId /\ raw.id # "" THEN raw.id ELSE raw.title)

\* C7 as stated: for every flat `text` of strings, the empty one included,
\* splitting the stored sentences blob on newline gives back `text`.
C7_RoundTripAnyFlatText ==
    (npc = "retrieved" /\ FlatStrings(raw)) => hitSentences = TextStrings(raw)

\* C7 as amended: for a flat `text` of strings none of which holds a newline,
\* splitting the stored blob gives back `text` when `text` is not empty, and
\* gives the one-element list [''] when `text` is empty.
C7_RoundTripNewlineFree ==
    (npc = "retrieved" /\ FlatStrings(raw) /\ NewlineFree(raw)) =>
        hitSentences = (IF raw.text = <<>> THEN << <<>> >> ELSE TextStrings(raw))

C7_Witness ==
    /\ npc = "retrieved"
    /\ FlatStrings(raw)
    /\ NewlineFree(raw)
    /\ Len(raw.text) >= 2
    /\ raw.text[1] # raw.text[2]
    /\ hitSentences = TextStrings(raw)

\* how many sentences one element of `text` stands for
Contribution(item) ==
    IF item.kind = "str" THEN 1
    ELSE Cardinality({ j \in DOMAIN item.m : item.m[j].kind = "str" })

\* how many sentences the elements before the i-th stand for
RECURSIVE Offset(_, _)
Offset(text, i) ==
    IF i <= 1 THEN 0 ELSE Offset(text, i - 1) + Contribution(text[i - 1])

\* the place of member j among the string members of m
Rank(m, j) == Cardinality({ h \in 1..j : m[h].kind = "str" })

\* C8: for a `text` of strings and one-level nested lists, `sentences` is the
\* top-level strings and the string members of the nested lists, each at the
\* place its position in `text` gives it, and nothing else.
C8_Flattening ==
    (npc = "indexed" /\ StringsAndLists(raw)) =>
        /\ Len(sentences) = Offset(raw.text, Len(raw.text) + 1)
        /\ \A i \in DOMAIN raw.text :
            LET item == raw.text[i] IN
            /\ item.kind = "str" =>
                sentences[Offset(raw.text, i) + 1] = item.s
            /\ item.kind = "list" =>
                \A j \in DOMAIN item.m :
                    item.m[j].kind = "str" =>
                        sentences[Offset(raw.text, i) + Rank(item.m, j)] = item.m[j].s

C8_Witness ==
    /\ npc = "indexed"
    /\ StringsAndLists(raw)
    /\ Len(raw.text) >= 3
    /\ raw.text[1].kind = "list"
    /\ \E j \in DOMAIN raw.text[1].m : raw.text[1].m[j].kind # "str"
    /\ raw.text[2].kind = "str"
    /\ raw.text[3].kind = "list"
    /\ Len(sentences) >= 4

(***************************************************************************)
(* Claims about evaluate_retrieval (SpecEval).                             *)
(***************************************************************************)
\* the distinct titles on either side, read off the entry itself
GoldTitles(e) == { t \in {"A", "B", "C"} : \E i \in DOMAIN e.supporting_facts : e.supporting_facts[i][1] = t }
GotTitles(e) == { t \in {"A", "B", "C"} : \E i \in DOMAIN e.retrieved_docs : e.retrieved_docs[i] = t }

FullyCovered(e) == GoldTitles(e) # {} /\ GoldTitles(e) \subseteq GotTitles(e)

\* C9: per-claim recall is |required /\ retrieved| / |required| over distinct
\* titles, 0 when there is no required title; a claim counts towards
\* claims_with_all_docs iff it has a required title and all are retrieved.
C9_PerClaimRecall ==
    epc = "returned" =>
        /\ Len(recalls) = Len(evalResults)
        /\ \A i \in DOMAIN evalResults :
            LET e == evalResults[i] IN
            IF GoldTitles(e) = {}
            THEN recalls[i].n = 0
            ELSE recalls[i].n * Cardinality(GoldTitles(e)) =
                 recalls[i].d * Cardinality(GoldTitles(e) \cap GotTitles(e))
        /\ metrics.claims_with_all_docs =
            Cardinality({ i \in DOMAIN evalResults : FullyCovered(evalResults[i]) })

C9_Witness ==
    /\ epc = "returned"
    /\ \E i \in DOMAIN evalResults :
        /\ Len(evalResults[i].supporting_facts) > Cardinality(GoldTitles(evalResults[i]))
        /\ recalls[i] = [n |-> 1, d |-> 1]
    /\ \E i \in DOMAIN evalResults :
        /\ Len(evalResults[i].retrieved_docs) > Cardinality(GotTitles(evalResults[i]))
        /\ recalls[i] = [n |-> 1, d |-> 2]
    /\ metrics.claims_with_all_docs = 1

\* the product of the denominators of the recalls
RECURSIVE DenProduct(_)
DenProduct(rs) == IF rs = <<>> THEN 1 ELSE Head(rs).d * DenProduct(Tail(rs))

\* the sum of the recalls times D, a multiple of every denominator
RECURSIVE SumScaled(_, _)
SumScaled(rs, D) ==
    IF rs = <<>> THEN 0 ELSE Head(rs).n * (D \div Head(rs).d) + SumScaled(Tail(rs), D)

\* C10: for a non-empty mapping coverage is (claims with recall 1.0) /
\* total_claims and avg_recall is (sum of recalls) / total_claims, total_claims
\* being the number of entries; for an empty mapping the call fails.
C10_Aggregates ==
    /\ epc = "returned" =>
        LET total == Len(evalResults)
            D == DenProduct(recalls) IN
        /\ total > 0
        /\ metrics.total_claims = total
        /\ metrics.coverage.n * total =
            metrics.coverage.d * Cardinality({ i \in DOMAIN recalls : recalls[i].n = recalls[i].d })
        /\ metrics.avg_recall.n * D * total = metrics.avg_recall.d * SumScaled(recalls, D)
    /\ (epc \in {"returned", "ZeroDivisionError"} /\ Len(evalResults) = 0) =>
        epc = "ZeroDivisionError" /\ metrics = NoMetrics

C10_Witness ==
    /\ epc = "returned"
    /\ Len(evalResults) = 2
    /\ metrics.coverage = [n |-> 1, d |-> 2]
    /\ metrics.avg_recall = [n |-> 2, d |-> 3]

(***************************************************************************)
(* Claims about batch_retrieve (SpecBatch).                                *)
(***************************************************************************)
\* the mapping a whole run builds: under each uid of the dataset, the entry
\* of the last example that carries it
FullMapping ==
    [u \in { dataset[i].uid : i \in DOMAIN dataset } |->
        LET last == CHOOSE i \in DOMAIN dataset :
                        /\ dataset[i].uid = u
                        /\ \A j \in DOMAIN dataset : j > i => dataset[j].uid # u
        IN ResultEntry(dataset[last], k)]

\* C4: the sink is written once, after retrieve has returned for every claim,
\* with the complete mapping; a failing retrieve leaves the sink untouched;
\* a completed run returns the full mapping, sink or no sink.
C4_SinkWrittenOnceAtEnd ==
    /\ sinkWrites <= 1
    /\ sinkWrites = 1 =>
        /\ bi = Len(dataset)
        /\ Truthy(output_file)
        /\ sink = [state |-> "written", data |-> FullMapping]
    /\ sinkWrites = 0 => sink \in {NoFile, StaleFile}
    /\ bpc = "raised" => sinkWrites = 0
    /\ bpc = "returned" =>
        /\ returned = FullMapping
        /\ Truthy(output_file) <=> sinkWrites = 1

C4_Witness ==
    /\ bpc = "returned"
    /\ Len(dataset) = 3
    /\ Cardinality(DOMAIN returned) = 2
    /\ sinkWrites = 1
    /\ sink.data = returned

(***************************************************************************)
(* Claims about parse_hotpot_wiki (SpecParse).                             *)
(***************************************************************************)
\* the documents of the well-formed lines of a file, in file order
RECURSIVE DocsOf(_)
DocsOf(lines) ==
    IF lines = <<>> THEN <<>>
    ELSE (IF Head(lines).kind = "doc" THEN <<Head(lines).doc>> ELSE <<>>)
         \o DocsOf(Tail(lines))

\* the shards of the directory that can be opened
ReadableShards == { q \in DOMAIN fsys : EndsWithBz2(q) /\ fsys[q].openable }

\* the documents of the shards of S, the shard with the least path first
RECURSIVE DocsInPathOrder(_)
DocsInPathOrder(S) ==
    IF S = {} THEN <<>>
    ELSE LET least == CHOOSE q \in S : \A r \in S : r = q \/ LexLess(q, r)
         IN DocsOf(fsys[least].lines) \o DocsInPathOrder(S \ {least})

IsPrefix(a, b) == Len(a) <= Len(b) /\ a = SubSeq(b, 1, Len(a))

\* C5: over a directory the scan never stops early and yields exactly the
\* documents of the well-formed lines of the readable shards, shards in
\* lexicographic path order and lines in file order.
C5_ScanSkipsAndContinues ==
    (ppc # "off" /\ ~isfile) =>
        /\ IsPrefix(yielded, DocsInPathOrder(ReadableShards))
        /\ ppc = "done" => yielded = DocsInPathOrder(ReadableShards)
        /\ ppc # "done" => ENABLED NextParse

C5_Witness ==
    /\ ppc = "done"
    /\ ~isfile
    /\ Cardinality(ReadableShards) >= 2
    /\ \E q \in DOMAIN fsys : EndsWithBz2(q) /\ ~fsys[q].openable
    /\ diagnostics >= 1
    /\ Len(yielded) >= 3
    /\ yielded[1] # yielded[Len(yielded)]

(***************************************************************************)
(* Claims about create_index and index_wikipedia (SpecIndex).              *)
(***************************************************************************)
\* C1: create_index on an existing index ends without error and sends the
\* engine no create request; a create request is sent only when the index
\* does not exist.
C1_CreateIndexIdempotent ==
    [][(ipc = "create" /\ indexExists) =>
            (createRequests' = createRequests /\ exc' = "none" /\ ipc' # "raised")]_vars

\* a document whose write failed for good is among those sent to the engine
FailedWriteSent == \E i \in 1..consumed : ~corpus[i].ok

\* C2: a permanently failed write does not abort the load: once
\* index_wikipedia has ended, every document of the stream has been
\* submitted, the failure has been reported and the refresh issued.
C2_FailedWriteDoesNotAbort ==
    (ipc \in {"returned", "raised"} /\ exc \notin {"RequestError", "KeyError"}
        /\ FailedWriteSent) =>
        /\ consumed = Len(corpus)
        /\ failuresReported >= 1
        /\ refreshes = 1

\* C3: index_wikipedia issues one refresh, after the whole stream has been
\* consumed and every verdict looked at; when it returns, every document
\* written is searchable.
C3_RefreshOnceAfterStream ==
    /\ refreshes <= 1
    /\ refreshes = 1 =>
        /\ consumed = Len(corpus)
        /\ pending = <<>>
        /\ chunkErrors = 0
    /\ ipc = "returned" =>
        /\ refreshes = 1
        /\ stored \subseteq searchable

C3_Witness ==
    /\ ipc = "returned"
    /\ Len(corpus) = 3
    /\ batch_size = 2
    /\ success_count = 3
    /\ Cardinality(searchable) = 2
    /\ refreshes = 1

=============================================================================
